---- MODULE Spec2Model ----
(***************************************************************************)
(* Model of the text-overlay filter-graph generator of ffmpeg-api.         *)
(*                                                                         *)
(* Two request handlers build a filter graph:                              *)
(*   - POST /combine        (src/server.js)                                *)
(*   - POST /process-video  (src/unnamed/part_001, lines 225-562)          *)
(*                                                                         *)
(* A JavaScript string is a sequence of one-character strings.  A draw     *)
(* command is a record of the fields the template string interpolates;     *)
(* position expressions and colours are sequences of string tokens.        *)
(***************************************************************************)
EXTENDS Integers, Sequences, FiniteSets, TLC

VARIABLES
    call,         \* the last direct call of a text helper: function, arguments, result
    reqs,         \* request slot -> the handler's locals and its position
    TEXT_CONFIG   \* the module-level object of src/server.js

vars == <<call, reqs, TEXT_CONFIG>>

---------------------------------------------------------------------------
(* Bounds of the model                                                     *)

MaxTextLen == 4        \* longest string handed to cleanText directly
MaxWrapLen == 8        \* longest text handed to the line wrappers directly
MaxBudget == 4         \* largest maxCharsPerLine handed to the wrappers directly
MaxCaptionLen == 5     \* longest caption of a request

---------------------------------------------------------------------------
(* JavaScript strings                                                      *)

\* The value of a form field that the request does not carry.
Undefined == <<"undefined">>

\* Characters matched by \s (two representatives: space and tab).
Whitespace == {" ", "\t"}

\* if (text): a string is truthy unless it is undefined or empty.
Truthy(text) == text # Undefined /\ text # <<>>

\* s.replace(/[set]/g, '')
Remove(s, set) == SelectSeq(s, LAMBDA c : c \notin set)

\* s.replace(/[set]/g, ' ')
ReplaceBySpace(s, set) == [i \in 1..Len(s) |-> IF s[i] \in set THEN " " ELSE s[i]]

\* s.replace(/\s+/g, ' '): every maximal run of whitespace becomes one space.
CollapseWhitespace(s) ==
    LET starts == SelectSeq([i \in 1..Len(s) |-> i],
                            LAMBDA i : s[i] \notin Whitespace
                                       \/ i = 1
                                       \/ s[i - 1] \notin Whitespace)
    IN  [k \in 1..Len(starts) |->
            IF s[starts[k]] \in Whitespace THEN " " ELSE s[starts[k]]]

\* s.trim()
Trim(s) ==
    LET keep == {i \in 1..Len(s) : s[i] \notin Whitespace}
    IN  IF keep = {} THEN <<>>
        ELSE LET lo == CHOOSE i \in keep : \A j \in keep : i <= j
                 hi == CHOOSE i \in keep : \A j \in keep : j <= i
             IN  SubSeq(s, lo, hi)

\* s.split(' '): the pieces between single spaces, empty pieces included;
\* the empty string splits into one empty piece.
RECURSIVE Split(_)
Split(s) ==
    LET sp == {i \in 1..Len(s) : s[i] = " "}
    IN  IF sp = {} THEN <<s>>
        ELSE LET i == CHOOSE k \in sp : \A j \in sp : k <= j
             IN  <<SubSeq(s, 1, i - 1)>> \o Split(SubSeq(s, i + 1, Len(s)))

\* words.join(' ')
RECURSIVE Join(_)
Join(words) ==
    IF words = <<>> THEN <<>>
    ELSE IF Len(words) = 1 THEN words[1]
    ELSE words[1] \o <<" ">> \o Join(Tail(words))

\* All strings over an alphabet of length at most n.
RECURSIVE StringsUpTo(_, _)
StringsUpTo(alphabet, n) ==
    IF n = 0 THEN {<<>>}
    ELSE LET shorter == StringsUpTo(alphabet, n - 1)
         IN  shorter \cup {Append(s, c) : s \in shorter, c \in alphabet}

---------------------------------------------------------------------------
(* src/server.js: cleanText                                                *)

cleanTextNoCollapse(text) ==
    Trim(Remove(ReplaceBySpace(ReplaceBySpace(Remove(text, {"'", "\""}),
                                              {":"}), {","}), {"[", "]"}))

\* cleanText with '@' among the characters of its first replacement.
cleanTextDropsAt(text) ==
    Trim(CollapseWhitespace(
        Remove(ReplaceBySpace(ReplaceBySpace(Remove(text, {"'", "\"", "@"}),
                                             {":"}), {","}), {"[", "]"})))

cleanText(text) ==
    Trim(CollapseWhitespace(
        Remove(ReplaceBySpace(ReplaceBySpace(Remove(text, {"'", "\""}),
                                             {":"}), {","}), {"[", "]"})))

---------------------------------------------------------------------------
(* JavaScript numbers that may be NaN or Infinity                          *)

Num(v) == [k |-> "num", v |-> v]
NaN == [k |-> "nan", v |-> 0]
Infinity == [k |-> "inf", v |-> 0]

\* n <= b for an integer n and a JavaScript number b
\* (every comparison with NaN is false).
Leq(n, b) ==
    CASE b.k = "num" -> n <= b.v
      [] b.k = "inf" -> TRUE
      [] OTHER -> FALSE

---------------------------------------------------------------------------
(* src/server.js: splitTextIntoLines                                       *)

\* The test of line 75.
fitsNoSeparator(currentLength, wordLength, currentLine, maxCharsPerLine) ==
    Leq(currentLength + wordLength, maxCharsPerLine)

fits(currentLength, wordLength, currentLine, maxCharsPerLine) ==
    Leq(currentLength + wordLength + (IF Len(currentLine) > 0 THEN 1 ELSE 0),
        maxCharsPerLine)

\* The forEach callback of lines 73-85 without the push of line 80.
splitStepDropsLine(acc, word, index, maxCharsPerLine) ==
    IF fits(acc.currentLength, Len(word), acc.currentLine, maxCharsPerLine)
    THEN [lines |-> acc.lines,
          currentLine |-> Append(acc.currentLine, [word |-> word, index |-> index]),
          currentLength |-> acc.currentLength + Len(word) + 1]
    ELSE [lines |-> acc.lines,
          currentLine |-> <<[word |-> word, index |-> index]>>,
          currentLength |-> Len(word)]

\* One turn of the forEach of lines 73-85 on the accumulator
\* [lines, currentLine, currentLength]; index is 0-based.
splitStep(acc, word, index, maxCharsPerLine) ==
    LET wordLength == Len(word)
        entry == [word |-> word, index |-> index]
    IN  IF fits(acc.currentLength, wordLength, acc.currentLine, maxCharsPerLine)
        THEN LET pushed == Append(acc.currentLine, entry)
             IN  [lines |-> acc.lines,
                  currentLine |-> pushed,
                  \* line 77 runs after the push, so its test is always true
                  currentLength |-> acc.currentLength + wordLength
                                    + (IF Len(pushed) > 0 THEN 1 ELSE 0)]
        ELSE [lines |-> IF Len(acc.currentLine) > 0
                        THEN Append(acc.lines, acc.currentLine)
                        ELSE acc.lines,
              currentLine |-> <<entry>>,
              currentLength |-> wordLength]

RECURSIVE splitFold(_, _, _, _)
splitFold(acc, words, i, maxCharsPerLine) ==
    IF i > Len(words) THEN acc
    ELSE splitFold(splitStep(acc, words[i], i - 1, maxCharsPerLine),
                   words, i + 1, maxCharsPerLine)

splitTextIntoLines(text, maxCharsPerLine) ==
    LET words == Split(text)
        acc == splitFold([lines |-> <<>>, currentLine |-> <<>>, currentLength |-> 0],
                         words, 1, maxCharsPerLine)
    IN  IF Len(acc.currentLine) > 0 THEN Append(acc.lines, acc.currentLine)
        ELSE acc.lines

---------------------------------------------------------------------------
(* src/unnamed/part_001: transcriptToDrawText, the words and the lines     *)

\* Lines 325-326: trim, split on a space, drop the empty pieces.
transcriptWords(transcript) ==
    SelectSeq(Split(Trim(transcript)), LAMBDA w : Len(w) > 0)

\* Lines 331-337, as the set of 0-based word indices.
highlightIndicesOf(wordCount, isFirstTranscript) ==
    IF isFirstTranscript /\ wordCount >= 2 THEN {wordCount - 2, wordCount - 1}
    ELSE IF ~isFirstTranscript /\ wordCount >= 1 THEN {0}
    ELSE {}

\* One turn of the forEach of lines 345-366 on the accumulator
\* [lines, currentLine, currentCharCount]; globalWordIndex is 0-based.
wrapStep(acc, word, globalWordIndex, highlightIndices, maxCharsPerLine) ==
    LET wordLength == Len(word)
        potentialLength == acc.currentCharCount
                           + (IF Len(acc.currentLine) > 0 THEN 1 ELSE 0)
                           + wordLength
        entry == [word |-> word,
                  globalIndex |-> globalWordIndex,
                  highlight |-> globalWordIndex \in highlightIndices]
    IN  IF Leq(potentialLength, maxCharsPerLine)
        THEN [lines |-> acc.lines,
              currentLine |-> Append(acc.currentLine, entry),
              currentCharCount |-> potentialLength]
        ELSE [lines |-> IF Len(acc.currentLine) > 0
                        THEN Append(acc.lines, acc.currentLine)
                        ELSE acc.lines,
              currentLine |-> <<entry>>,
              currentCharCount |-> wordLength]

RECURSIVE wrapFold(_, _, _, _, _)
wrapFold(acc, words, i, highlightIndices, maxCharsPerLine) ==
    IF i > Len(words) THEN acc
    ELSE wrapFold(wrapStep(acc, words[i], i - 1, highlightIndices, maxCharsPerLine),
                  words, i + 1, highlightIndices, maxCharsPerLine)

\* Lines 339-367.
wrapWords(words, highlightIndices, maxCharsPerLine) ==
    LET acc == wrapFold([lines |-> <<>>, currentLine |-> <<>>, currentCharCount |-> 0],
                        words, 1, highlightIndices, maxCharsPerLine)
    IN  IF Len(acc.currentLine) > 0 THEN Append(acc.lines, acc.currentLine)
        ELSE acc.lines

---------------------------------------------------------------------------
(* Numbers in form fields and in template strings                          *)

Digits == <<"0", "1", "2", "3", "4", "5", "6", "7", "8", "9">>

DigitValue(c) == (CHOOSE d \in 1..10 : Digits[d] = c) - 1

IsDigit(c) == \E d \in 1..10 : Digits[d] = c

\* n.toString() for an integer n >= 0, as a string of characters.
RECURSIVE toString(_)
toString(n) ==
    IF n < 10 THEN <<Digits[n + 1]>>
    ELSE Append(toString(n \div 10), Digits[(n % 10) + 1])

\* The value of the longest prefix of digits of s, most significant first.
RECURSIVE digitPrefixValue(_, _)
digitPrefixValue(s, sofar) ==
    IF s = <<>> \/ ~IsDigit(Head(s)) THEN sofar
    ELSE digitPrefixValue(Tail(s), 10 * sofar + DigitValue(Head(s)))

\* parseInt(s): leading whitespace skipped, an optional sign, then digits;
\* NaN when no digit follows.
parseInt(s) ==
    LET keep == {i \in 1..Len(s) : s[i] \notin Whitespace}
        t == IF keep = {} THEN <<>>
             ELSE SubSeq(s, CHOOSE i \in keep : \A j \in keep : i <= j, Len(s))
        negative == t # <<>> /\ Head(t) = "-"
        u == IF t # <<>> /\ Head(t) \in {"-", "+"} THEN Tail(t) ELSE t
    IN  IF u = <<>> \/ ~IsDigit(Head(u)) THEN NaN
        ELSE Num((IF negative THEN -1 ELSE 1) * digitPrefixValue(u, 0))

\* `${n}` for a number given in tenths: a "-" token for a negative number,
\* then the digits, with one decimal when the number is not whole.
FormatTenths(n10) ==
    LET a == IF n10 < 0 THEN -n10 ELSE n10
        digits == IF a % 10 = 0 THEN ToString(a \div 10)
                  ELSE ToString(a \div 10) \o "." \o ToString(a % 10)
    IN  IF n10 < 0 THEN <<"-", digits>> ELSE <<digits>>

\* Math.round of the fraction p / q, q > 0 (halves go up).
RoundDiv(p, q) == (2 * p + q) \div (2 * q)

---------------------------------------------------------------------------
(* Draw commands                                                           *)

\* An enable expression: 'lt(t,7.5)' is [op |-> "lt", t10 |-> 75],
\* the time in tenths of a second; null is NoEnable.
NoEnable == [op |-> "none", t10 |-> 0]
LessThan(t10) == [op |-> "lt", t10 |-> t10]
AtLeast(t10) == [op |-> "gte", t10 |-> t10]

fontFile == "fonts/Frontage-Condensed-Bold.ttf"

---------------------------------------------------------------------------
(* src/server.js: createGlowEffects                                        *)

\* text.replace(/[\\':]/g, '\\$&'): a backslash before each of \ ' :
RECURSIVE escapeText(_)
escapeText(text) ==
    IF text = <<>> THEN <<>>
    ELSE (IF Head(text) \in {"\\", "'", ":"} THEN <<"\\", Head(text)>>
          ELSE <<Head(text)>>) \o escapeText(Tail(text))

\* The fourth ("Main text") command of line 117.
mainTextLayerWhite(base, color) ==
    base @@ [fontcolor |-> <<"white">>, borderw |-> 2,
             bordercolor |-> <<"white", "@0.4">>]

mainTextLayer(base, color) ==
    base @@ [fontcolor |-> <<color>>, borderw |-> 2,
             bordercolor |-> <<"white", "@0.4">>]

createGlowEffects(text, x, y, fontSize, color, file, enableExpr) ==
    LET baseCommand == [text |-> escapeText(text),
                        fontfile |-> file,
                        fontsize |-> fontSize,
                        x |-> x,
                        y |-> y,
                        \* if (enableExpr) baseCommand.push(enable=...)
                        enable |-> enableExpr]
    IN  << baseCommand @@ [fontcolor |-> <<"white", "@0.08">>, borderw |-> 20,
                           bordercolor |-> <<"white", "@0.05">>],
           baseCommand @@ [fontcolor |-> <<"white", "@0.15">>, borderw |-> 12,
                           bordercolor |-> <<"white", "@0.1">>],
           baseCommand @@ [fontcolor |-> <<"white", "@0.3">>, borderw |-> 6,
                           bordercolor |-> <<"white", "@0.2">>],
           mainTextLayer(baseCommand, color) >>

---------------------------------------------------------------------------
(* src/server.js: createHighlightedText                                    *)

\* Lines 134-136.
isHighlightedLine(lineIndex, lineCount, isFirstTranscript) ==
    IF isFirstTranscript THEN lineIndex = lineCount - 1 ELSE lineIndex = 0

\* Line 138, read from the configuration cfg.
lineColor(cfg, highlighted) ==
    IF highlighted THEN cfg.highlightColor ELSE cfg.fontColor

\* Lines 123-130: the two numbers put into the y expression, in tenths:
\* baseY and lineIndex * lineHeight (lineHeightMultiplier is kept in tenths).
lineYTerms(cfg, lineIndex, isFirstTranscript, fontSize) ==
    LET baseY == IF isFirstTranscript THEN cfg.textVerticalOffset.first
                 ELSE cfg.textVerticalOffset.second
    IN  <<10 * baseY, lineIndex * fontSize.v * cfg.lineHeightMultiplier>>

\* Line 130: `(h/2)${baseY}+${lineIndex * lineHeight}`.
lineYOf(cfg, lineIndex, isFirstTranscript, fontSize) ==
    LET terms == lineYTerms(cfg, lineIndex, isFirstTranscript, fontSize)
    IN  <<"(h/2)">> \o FormatTenths(terms[1]) \o <<"+">>
        \o (IF fontSize.k = "num" THEN FormatTenths(terms[2]) ELSE <<"NaN">>)

\* The unit drawn for one line: text, position, size, colour, window
\* (highlight records which colour was asked for).
lineUnit(cfg, line, lineIndex, lineCount, isFirstTranscript, fontSize, enableExpr) ==
    [text |-> Join([i \in 1..Len(line) |-> line[i].word]),
     x |-> <<"(w-text_w)/2">>,
     y |-> lineYOf(cfg, lineIndex, isFirstTranscript, fontSize),
     fontSize |-> fontSize,
     color |-> lineColor(cfg, isHighlightedLine(lineIndex, lineCount, isFirstTranscript)),
     highlight |-> isHighlightedLine(lineIndex, lineCount, isFirstTranscript),
     enable |-> enableExpr]

\* The units of a block, in the order of the forEach of line 125.
createHighlightedUnits(cfg, lines, isFirstTranscript, fontSize, enableExpr) ==
    [li \in 1..Len(lines) |->
        lineUnit(cfg, lines[li], li - 1, Len(lines), isFirstTranscript,
                 fontSize, enableExpr)]

\* The glow expansions of a list of units, concatenated (join(',')).
RECURSIVE expandAll(_, _)
expandAll(units, file) ==
    IF units = <<>> THEN <<>>
    ELSE LET u == Head(units)
         IN  createGlowEffects(u.text, u.x, u.y, u.fontSize, u.color, file, u.enable)
             \o expandAll(Tail(units), file)

createHighlightedText(cfg, lines, isFirstTranscript, fontSize, file, yOffset, enableExpr) ==
    expandAll(createHighlightedUnits(cfg, lines, isFirstTranscript, fontSize, enableExpr),
              file)

---------------------------------------------------------------------------
(* src/unnamed/part_001: createChannelNameDrawText (lines 278-313)         *)

\* Lines 279-285; the same chain of replacements as cleanText.
cleanChannelNameOf(channelName) ==
    Trim(CollapseWhitespace(
        Remove(ReplaceBySpace(ReplaceBySpace(Remove(channelName, {"'", "\""}),
                                             {":"}), {","}), {"[", "]"})))

\* channelName.replace(...) on undefined raises a TypeError.
channelNameThrows(channelName) == channelName = Undefined

createChannelNameDrawText(channelName, file, fontColor) ==
    LET base == [text |-> cleanChannelNameOf(channelName),
                 fontfile |-> file,
                 fontsize |-> Num(40),
                 x |-> <<"(w-tw)/2">>,
                 y |-> <<"(h/2)", "+", "400">>,
                 enable |-> NoEnable]
    IN  << base @@ [fontcolor |-> <<"white", "@0.08">>, borderw |-> 10,
                    bordercolor |-> <<"white", "@0.05">>],
           base @@ [fontcolor |-> <<"white", "@0.15">>, borderw |-> 6,
                    bordercolor |-> <<"white", "@0.1">>],
           base @@ [fontcolor |-> <<"white", "@0.3">>, borderw |-> 3,
                    bordercolor |-> <<"white", "@0.2">>],
           base @@ [fontcolor |-> <<fontColor>>, borderw |-> 1,
                    bordercolor |-> <<"white", "@0.4">>] >>

---------------------------------------------------------------------------
(* src/unnamed/part_001: transcriptToDrawText (lines 315-447)              *)

\* Lines 322-323: Math.floor(1080 / (fontSize * 0.6)).
processMaxCharsPerLine(fontSize) ==
    IF fontSize.k # "num" THEN NaN
    ELSE IF fontSize.v = 0 THEN Infinity
    ELSE IF fontSize.v > 0 THEN Num((1080 * 10) \div (fontSize.v * 6))
    ELSE Num((-(1080 * 10)) \div ((-fontSize.v) * 6))

\* Line 374: Math.round((lineIndex * lineHeight) - (totalHeight / 2))
\* + textVerticalOffset; lineHeightMultiplier is 1.1 and textVerticalOffset
\* is -500.
transcriptLineYOffset(lineIndex, lineCount, fontSize) ==
    RoundDiv(fontSize.v * 11 * (2 * lineIndex - lineCount), 20) + (-500)

\* Lines 374-375: the line's y expression.
transcriptLineY(lineIndex, lineCount, fontSize) ==
    IF fontSize.k # "num" THEN <<"(h/2)", "NaN">>
    ELSE LET yOffset == transcriptLineYOffset(lineIndex, lineCount, fontSize)
         IN  IF yOffset >= 0 THEN <<"(h/2)", "+">> \o FormatTenths(10 * yOffset)
             ELSE <<"(h/2)">> \o FormatTenths(10 * yOffset)

\* Lines 381-387.
cleanLineOf(lineText) ==
    Trim(CollapseWhitespace(
        Remove(ReplaceBySpace(ReplaceBySpace(Remove(lineText, {"'", "\""}),
                                             {":"}), {","}), {"[", "]"})))

\* Lines 406-411: no collapse of whitespace here.
cleanWordOf(word) ==
    Trim(Remove(ReplaceBySpace(ReplaceBySpace(Remove(word, {"'", "\""}),
                                              {":"}), {","}), {"[", "]"}))

\* Lines 414-415 without the separator that follows the words before.
spacesBeforeWordNoSeparator(line, wordIndexInLine) ==
    Len(Join([i \in 1..wordIndexInLine |-> line[i].word]))

\* Lines 414-415: the number of characters before the word at
\* wordIndexInLine (0-based), the separator before it included.
spacesBeforeWord(line, wordIndexInLine) ==
    LET textBeforeWord == Join([i \in 1..wordIndexInLine |-> line[i].word])
    IN  IF Len(textBeforeWord) > 0 THEN Len(textBeforeWord) + 1 ELSE 0

\* Lines 417-418: Math.round(spacesBeforeWord * charWidth), charWidth being
\* fontSize * 0.55.
pixelOffsetOf(line, wordIndexInLine, fontSize) ==
    RoundDiv(spacesBeforeWord(line, wordIndexInLine) * fontSize.v * 55, 100)

\* Lines 420-421: Math.round(fullLineLength * charWidth).
fullLineWidthOf(line, fontSize) ==
    RoundDiv(Len(Join([i \in 1..Len(line) |-> line[i].word])) * fontSize.v * 55, 100)

\* Lines 414-424: the x expression of the word at wordIndexInLine (0-based).
wordXPos(line, wordIndexInLine, fontSize) ==
    IF fontSize.k # "num" THEN <<"(w-", "NaN", ")/2">>
    ELSE LET pixelOffset == pixelOffsetOf(line, wordIndexInLine, fontSize)
             fullLineWidth == fullLineWidthOf(line, fontSize)
             lineStartX == <<"(w-">> \o FormatTenths(10 * fullLineWidth) \o <<")/2">>
         IN  IF pixelOffset > 0
             THEN lineStartX \o <<"+">> \o FormatTenths(10 * pixelOffset)
             ELSE lineStartX

\* The unit of a line without a highlighted word (lines 379-401).
wholeLineUnit(line, y, fontSize, fontColor, enableExpr) ==
    [text |-> cleanLineOf(Join([i \in 1..Len(line) |-> line[i].word])),
     x |-> <<"(w-tw)/2">>,
     y |-> y,
     fontSize |-> fontSize,
     color |-> fontColor,
     glowColor |-> "white",
     highlight |-> FALSE,
     enable |-> enableExpr]

\* The units of a line with a highlighted word (lines 403-441): one per
\* word whose cleaned text is not empty.
RECURSIVE wordUnits(_, _, _, _, _, _, _)
wordUnits(line, k, y, fontSize, fontColor, highlightColor, enableExpr) ==
    IF k > Len(line) THEN <<>>
    ELSE LET wordObj == line[k]
             cleanWord == cleanWordOf(wordObj.word)
             unit == [text |-> cleanWord,
                      x |-> wordXPos(line, k - 1, fontSize),
                      y |-> y,
                      fontSize |-> fontSize,
                      color |-> IF wordObj.highlight THEN highlightColor ELSE fontColor,
                      glowColor |-> IF wordObj.highlight THEN highlightColor ELSE "white",
                      highlight |-> wordObj.highlight,
                      enable |-> enableExpr]
         IN  (IF cleanWord # <<>> THEN <<unit>> ELSE <<>>)
             \o wordUnits(line, k + 1, y, fontSize, fontColor, highlightColor, enableExpr)

\* The units of the lines from lineIndex on (the forEach of line 373).
RECURSIVE lineUnits(_, _, _, _, _, _)
lineUnits(lines, li, fontSize, fontColor, highlightColor, enableExpr) ==
    IF li > Len(lines) THEN <<>>
    ELSE LET line == lines[li]
             y == transcriptLineY(li - 1, Len(lines), fontSize)
             hasHighlighted == \E i \in 1..Len(line) : line[i].highlight
         IN  (IF ~hasHighlighted
              THEN <<wholeLineUnit(line, y, fontSize, fontColor, enableExpr)>>
              ELSE wordUnits(line, 1, y, fontSize, fontColor, highlightColor, enableExpr))
             \o lineUnits(lines, li + 1, fontSize, fontColor, highlightColor, enableExpr)

\* The four drawtext commands pushed for one unit (lines 390-401, 429-440).
drawTextCommands(unit, file) ==
    LET base == [text |-> unit.text,
                 fontfile |-> file,
                 fontsize |-> unit.fontSize,
                 x |-> unit.x,
                 y |-> unit.y,
                 enable |-> unit.enable]
    IN  << base @@ [fontcolor |-> <<unit.glowColor, "@0.08">>, borderw |-> 20,
                    bordercolor |-> <<unit.glowColor, "@0.05">>],
           base @@ [fontcolor |-> <<unit.glowColor, "@0.15">>, borderw |-> 12,
                    bordercolor |-> <<unit.glowColor, "@0.1">>],
           base @@ [fontcolor |-> <<unit.glowColor, "@0.3">>, borderw |-> 6,
                    bordercolor |-> <<unit.glowColor, "@0.2">>],
           base @@ [fontcolor |-> <<unit.color>>, borderw |-> 2,
                    bordercolor |-> <<unit.glowColor, "@0.4">>] >>

\* The lines of a transcript with their highlight flags (lines 316-367);
\* no line when the transcript is falsy or has no word.
transcriptLines(transcript, isFirstTranscript, fontSize) ==
    IF ~Truthy(transcript) THEN <<>>
    ELSE LET words == transcriptWords(transcript)
         IN  wrapWords(words, highlightIndicesOf(Len(words), isFirstTranscript),
                       processMaxCharsPerLine(fontSize))

\* The units of a transcript.
transcriptUnits(transcript, enableExpr, isFirstTranscript, fontSize, fontColor, highlightColor) ==
    lineUnits(transcriptLines(transcript, isFirstTranscript, fontSize), 1,
              fontSize, fontColor, highlightColor, enableExpr)

RECURSIVE drawAll(_, _)
drawAll(units, file) ==
    IF units = <<>> THEN <<>>
    ELSE drawTextCommands(Head(units), file) \o drawAll(Tail(units), file)

transcriptToDrawText(transcript, enableExpr, isFirstTranscript, fontSize, fontColor, highlightColor, file) ==
    drawAll(transcriptUnits(transcript, enableExpr, isFirstTranscript, fontSize,
                            fontColor, highlightColor), file)

---------------------------------------------------------------------------
(* src/server.js: TEXT_CONFIG (lines 17-40)                                *)

\* Lines 36-39: 'lt(t,7.5)' and 'gte(t,8.5)'.
transcriptTimingNoGap == [first |-> LessThan(75), second |-> AtLeast(75)]

transcriptTiming == [first |-> LessThan(75), second |-> AtLeast(85)]

\* maxLineWidth (0.8) and lineHeightMultiplier (3.5) are kept in tenths,
\* the opacities of glowLevels in hundredths.
TextConfig ==
    [maxLineWidth |-> 8,
     fontSize |-> 80,
     channelFontSize |-> 40,
     fontColor |-> "white",
     highlightColor |-> "#98FBCB",
     lineHeightMultiplier |-> 35,
     textVerticalOffset |-> [first |-> -400, second |-> 100, spacing |-> 200],
     channelVerticalOffset |-> 400,
     glowLevels |-> << [opacity |-> 8, borderWidth |-> 20, borderOpacity |-> 5],
                       [opacity |-> 15, borderWidth |-> 12, borderOpacity |-> 10],
                       [opacity |-> 30, borderWidth |-> 6, borderOpacity |-> 20],
                       [opacity |-> 100, borderWidth |-> 2, borderOpacity |-> 40] >>,
     transcriptTiming |-> transcriptTiming]

---------------------------------------------------------------------------
(* src/server.js: the construction inside POST /combine (lines 277-371)    *)

\* A colour field the request does not carry.
NoColor == "undefined"

defaultChannelName == <<"@", "m", "o", "t", "i", "v", "v", "m", "i", "n", "d", "s", "e", "t">>

\* Lines 277-284: the destructuring of req.body with its defaults.
combineLocals(cfg, body) ==
    [transcript1 |-> body.transcript1,
     transcript2 |-> body.transcript2,
     channelName |-> IF body.channelName = Undefined THEN defaultChannelName
                     ELSE body.channelName,
     fontSize |-> IF body.fontSize = Undefined THEN toString(cfg.fontSize)
                  ELSE body.fontSize,
     fontColor |-> IF body.fontColor = NoColor THEN cfg.fontColor ELSE body.fontColor,
     highlightColor |-> IF body.highlightColor = NoColor THEN cfg.highlightColor
                        ELSE body.highlightColor]

\* Line 329: Math.floor((videoWidth * 0.8) / (parseInt(fontSize) * 0.6)).
combineMaxCharsPerLine(cfg, videoWidth, fontSize) ==
    IF fontSize.k # "num" THEN NaN
    ELSE IF fontSize.v = 0 THEN Infinity
    ELSE IF fontSize.v > 0
         THEN Num((videoWidth * cfg.maxLineWidth) \div (fontSize.v * 6))
    ELSE Num((-(videoWidth * cfg.maxLineWidth)) \div ((-fontSize.v) * 6))

\* Lines 336-337 and 350-351: the lines of a caption; none for a falsy one.
combineLines(transcript, maxCharsPerLine) ==
    IF ~Truthy(transcript) THEN <<>>
    ELSE splitTextIntoLines(cleanText(transcript), maxCharsPerLine)

\* Lines 335-346 (isFirst) and 349-360: the commands pushed for a caption.
combineBlock(cfg, transcript, isFirstTranscript, fontSize, maxCharsPerLine) ==
    IF ~Truthy(transcript) THEN <<>>
    ELSE createHighlightedText(
             cfg,
             combineLines(transcript, maxCharsPerLine),
             isFirstTranscript,
             fontSize,
             fontFile,
             IF isFirstTranscript THEN cfg.textVerticalOffset.first
             ELSE cfg.textVerticalOffset.second,
             IF isFirstTranscript THEN cfg.transcriptTiming.first
             ELSE cfg.transcriptTiming.second)

\* Lines 363-371: the channel name.
combineChannel(cfg, locals) ==
    createGlowEffects(cleanText(locals.channelName),
                      <<"(w-text_w)/2">>,
                      <<"(h/2)", "+">> \o FormatTenths(10 * cfg.channelVerticalOffset),
                      Num(cfg.channelFontSize),
                      locals.fontColor,
                      fontFile,
                      NoEnable)

\* Lines 332-371 and 389: textFilters in push order, empty strings dropped,
\* as one sequence of commands.
combineAssembleSwapped(first, second, channel) == second \o first \o channel

combineAssemble(first, second, channel) == first \o second \o channel

combineFilterGraph(cfg, body, videoWidth) ==
    LET locals == combineLocals(cfg, body)
        fontSize == parseInt(locals.fontSize)
        maxCharsPerLine == combineMaxCharsPerLine(cfg, videoWidth, fontSize)
    IN  combineAssemble(
            combineBlock(cfg, locals.transcript1, TRUE, fontSize, maxCharsPerLine),
            combineBlock(cfg, locals.transcript2, FALSE, fontSize, maxCharsPerLine),
            combineChannel(cfg, locals))

---------------------------------------------------------------------------
(* src/unnamed/part_001: the construction inside POST /process-video       *)
(* (lines 457-490)                                                         *)

\* Lines 457-464: the destructuring of req.body; channelName has no default.
processLocals(body) ==
    [transcript1 |-> body.transcript1,
     transcript2 |-> body.transcript2,
     channelName |-> body.channelName,
     fontSize |-> IF body.fontSize = Undefined THEN <<"8", "0">> ELSE body.fontSize,
     fontColor |-> IF body.fontColor = NoColor THEN "white" ELSE body.fontColor,
     highlightColor |-> IF body.highlightColor = NoColor THEN "#98FBCB"
                        ELSE body.highlightColor]

\* Lines 485-487 raise when createChannelNameDrawText does.
processThrows(body) == channelNameThrows(processLocals(body).channelName)

\* Lines 482-490: [drawText1, drawText2, channelDrawText].filter(Boolean).join(',').
processFilterGraph(body) ==
    LET locals == processLocals(body)
        parsedFontSize == parseInt(locals.fontSize)
    IN  transcriptToDrawText(locals.transcript1, LessThan(75), TRUE, parsedFontSize,
                             locals.fontColor, locals.highlightColor, fontFile)
        \o transcriptToDrawText(locals.transcript2, AtLeast(85), FALSE, parsedFontSize,
                                locals.fontColor, locals.highlightColor, fontFile)
        \o createChannelNameDrawText(locals.channelName, fontFile, locals.fontColor)

\* Neither handler assigns to TEXT_CONFIG: the object after a construction.
combineConfigStoresColors(cfg, locals) ==
    [cfg EXCEPT !.fontColor = locals.fontColor,
                !.highlightColor = locals.highlightColor]

combineConfigAfter(cfg, locals) == cfg

---------------------------------------------------------------------------
(* Inputs                                                                  *)

MaxUnitTextLen == 2    \* longest text of a unit handed to a glow expansion directly
MaxWordLen == 4        \* longest word of a line positioned word by word directly
MaxLineWords == 3      \* most words of a line positioned word by word directly

CleanAlphabet == {"a", "'", "\"", ":", ",", "[", "]", " ", "\t"}
WrapAlphabet == {"a", " "}
UnitAlphabet == {"a", "\\", "'", ":"}
CaptionAlphabet == {"a", " ", ":"}

Slots == {1, 2}

Widths == {1080, 1920}

Body(t1, t2, ch, fs, fc, hc) ==
    [transcript1 |-> t1, transcript2 |-> t2, channelName |-> ch,
     fontSize |-> fs, fontColor |-> fc, highlightColor |-> hc]

Request(e, body, video, audio) ==
    [endpoint |-> e, body |-> body, hasVideo |-> video, hasAudio |-> audio]

Endpoints == {"combine", "process-video"}

Captions == StringsUpTo(CaptionAlphabet, MaxCaptionLen)

FontSizes == {Undefined, <<"4", "8", "0">>, <<"1", "2", "0", "0">>}

SmallCaptions == {Undefined, <<>>, <<" ">>, <<"a", " ", "a">>}

ChannelNames == {Undefined, <<>>, <<"@", "c">>}

\* The caption "the quick brown fox jumps", by its words.
ExampleWords ==
    << <<"t", "h", "e">>, <<"q", "u", "i", "c", "k">>, <<"b", "r", "o", "w", "n">>,
       <<"f", "o", "x">>, <<"j", "u", "m", "p", "s">> >>

ExampleCaption == Join(ExampleWords)

\* The channel name "@Channel: Name".
ExampleChannelName ==
    <<"@", "C", "h", "a", "n", "n", "e", "l", ":", " ", "N", "a", "m", "e">>

\* One caption drawn from all short strings, the rest of the form at its
\* defaults; a small product of every field; and the example caption.
Requests ==
    {Request(e, Body(ExampleCaption, Undefined, <<"@", "c">>, fs, NoColor, NoColor), TRUE, TRUE) :
        e \in Endpoints, fs \in {Undefined, <<"8", "0">>}}
    \cup
    {Request(e, Body(t, Undefined, ExampleChannelName, Undefined, NoColor, NoColor), TRUE, TRUE) :
        e \in Endpoints, t \in {Undefined, <<"a">>}}
    \cup
    {Request(e, Body(t, t, <<"@", "c">>, <<"8", "5">>, NoColor, NoColor), TRUE, TRUE) :
        e \in Endpoints, t \in {<<"a">>}}
    \cup
    {Request(e, Body(t, Undefined, <<"@", "c">>, fs, NoColor, NoColor), TRUE, TRUE) :
        e \in Endpoints, t \in Captions, fs \in FontSizes}
    \cup
    {Request(e, Body(Undefined, t, <<"@", "c">>, fs, NoColor, NoColor), TRUE, TRUE) :
        e \in Endpoints, t \in Captions, fs \in FontSizes}
    \cup
    {Request(e, Body(t1, t2, ch, <<"4", "8", "0">>, fc, hc), TRUE, TRUE) :
        e \in Endpoints, t1 \in SmallCaptions, t2 \in SmallCaptions,
        ch \in ChannelNames, fc \in {NoColor, "red"}, hc \in {NoColor, "gold"}}
    \cup
    {Request(e, Body(Undefined, Undefined, Undefined, Undefined, NoColor, NoColor), v, a) :
        e \in Endpoints, v \in BOOLEAN, a \in BOOLEAN}

\* The requests of the two-slot specification.
ConcurrentRequests ==
    {Request(e, Body(t, Undefined, <<"@", "c">>, <<"4", "8", "0">>, fc, NoColor), TRUE, TRUE) :
        e \in {"combine"}, t \in {Undefined, <<"a", " ", "a">>}, fc \in {NoColor, "red"}}
    \cup
    {Request(e, Body(t, Undefined, <<"@", "c">>, <<"4", "8", "0">>, fc, NoColor), TRUE, TRUE) :
        e \in {"process-video"}, t \in {Undefined, <<"a", " ", "a">>}, fc \in {NoColor, "red"}}

---------------------------------------------------------------------------
(* State                                                                   *)

NoCall == [fn |-> "none", args |-> <<>>, ret |-> <<>>]

NoBody == Body(Undefined, Undefined, Undefined, Undefined, NoColor, NoColor)

\* The files of a request: its uploaded video and audio and the output of
\* ffmpeg.  A file is "none" (never stored), "fresh" (on disk, modified
\* within the last five minutes), "old" (on disk, modified more than five
\* minutes ago) or "deleted".
FileKinds == {"video", "audio", "output"}

NoFiles == [k \in FileKinds |-> "none"]

\* multer's disk storage has written the uploaded files when the handler
\* runs.
storedFiles(hasVideo, hasAudio) ==
    [k \in FileKinds |->
        IF (k = "video" /\ hasVideo) \/ (k = "audio" /\ hasAudio) THEN "fresh" ELSE "none"]

OnDisk(files) == {k \in FileKinds : files[k] \in {"fresh", "old"}}

\* cleanupFiles: every listed file that exists is removed.
cleanupFiles(files) ==
    [k \in FileKinds |-> IF k \in OnDisk(files) THEN "deleted" ELSE files[k]]

Idle ==
    [pc |-> "idle", endpoint |-> "none", body |-> NoBody, hasAudio |-> FALSE,
     videoWidth |-> 0, graph |-> <<>>, built |-> FALSE, raised |-> FALSE,
     status |-> 0, files |-> NoFiles]

Init ==
    /\ call = NoCall
    /\ reqs = [r \in Slots |-> Idle]
    /\ TEXT_CONFIG = TextConfig

---------------------------------------------------------------------------
(* POST /combine (src/server.js, lines 264-496)                            *)

\* The upload is rejected by multer, which removes what it had stored: the
\* catch block answers 400.
CombineUploadRejected(r) ==
    /\ reqs[r].pc = "idle"
    /\ reqs' = [reqs EXCEPT ![r] = [Idle EXCEPT !.pc = "done",
                                                !.endpoint = "combine",
                                                !.status = 400]]
    /\ UNCHANGED <<call, TEXT_CONFIG>>

\* Lines 267-294: the upload resolves with its files stored, the body is
\* destructured, a request without a video is answered 400 (its audio file
\* stays); the handler then awaits a probe.
CombineStart(r, requests) ==
    /\ reqs[r].pc = "idle"
    /\ \E q \in requests :
        /\ q.endpoint = "combine"
        /\ reqs' = [reqs EXCEPT ![r] =
                [Idle EXCEPT !.endpoint = "combine",
                             !.body = q.body,
                             !.hasAudio = q.hasAudio,
                             !.files = storedFiles(q.hasVideo, q.hasAudio),
                             !.pc = IF ~q.hasVideo THEN "done"
                                    ELSE IF q.hasAudio THEN "probeAudio"
                                    ELSE "probeVideo",
                             !.status = IF ~q.hasVideo THEN 400 ELSE 0]]
    /\ UNCHANGED <<call, TEXT_CONFIG>>

\* Lines 294-315: the probe of the audio file returns.
CombineAudioProbed(r) ==
    /\ reqs[r].pc = "probeAudio"
    /\ \E valid \in BOOLEAN :
        reqs' = [reqs EXCEPT ![r].pc = IF valid THEN "probeVideo" ELSE "done",
                             ![r].status = IF valid THEN 0 ELSE 400]
    /\ UNCHANGED <<call, TEXT_CONFIG>>

\* Lines 321-326 reject: the catch block answers 500.
CombineVideoProbeFailed(r) ==
    /\ reqs[r].pc = "probeVideo"
    /\ reqs' = [reqs EXCEPT ![r].pc = "done", ![r].status = 500]
    /\ UNCHANGED <<call, TEXT_CONFIG>>

\* Lines 321-473: the probe of the video returns its width; the filters are
\* built and ffmpeg is started.
CombineVideoProbed(r) ==
    /\ reqs[r].pc = "probeVideo"
    /\ \E videoWidth \in Widths :
        /\ reqs' = [reqs EXCEPT ![r].pc = "encoding",
                                ![r].files.output = "fresh",
                                ![r].videoWidth = videoWidth,
                                ![r].built = TRUE,
                                ![r].graph = combineFilterGraph(TEXT_CONFIG, reqs[r].body,
                                                                videoWidth)]
        /\ TEXT_CONFIG' = combineConfigAfter(TEXT_CONFIG,
                                             combineLocals(TEXT_CONFIG, reqs[r].body))
    /\ UNCHANGED call

\* Lines 445-472: ffmpeg ends (the download of the output starts) or fails
\* (500, and the files are cleaned up).
CombineEncoded(r) ==
    /\ reqs[r].pc = "encoding"
    /\ reqs[r].endpoint = "combine"
    /\ \E ok \in BOOLEAN :
        reqs' = [reqs EXCEPT ![r].pc = IF ok THEN "download" ELSE "done",
                             ![r].status = IF ok THEN 200 ELSE 500,
                             ![r].files = IF ok THEN @ ELSE cleanupFiles(@)]
    /\ UNCHANGED <<call, TEXT_CONFIG>>

\* Lines 455-462: the download ends; one second later the files are cleaned
\* up.
CombineDownloaded(r) ==
    /\ reqs[r].pc = "download"
    /\ reqs[r].endpoint = "combine"
    /\ reqs' = [reqs EXCEPT ![r].pc = "done", ![r].files = cleanupFiles(@)]
    /\ UNCHANGED <<call, TEXT_CONFIG>>

\* Five minutes pass: the files of the request that nothing writes are now
\* old; the output stays fresh while ffmpeg writes it.
Aged(q) ==
    [k \in FileKinds |->
        IF q.files[k] = "fresh" /\ ~(k = "output" /\ q.pc = "encoding") THEN "old"
        ELSE q.files[k]]

MinutesPass(r) ==
    /\ Aged(reqs[r]) # reqs[r].files
    /\ reqs' = [reqs EXCEPT ![r].files = Aged(reqs[r])]
    /\ UNCHANGED <<call, TEXT_CONFIG>>

\* Lines 154-171 and 187: the timer fires; every file of uploads/ and
\* output/ that is more than five minutes old is removed.
Swept(q) ==
    [k \in FileKinds |-> IF q.files[k] = "old" THEN "deleted" ELSE q.files[k]]

cleanupOldFiles ==
    /\ \E r \in Slots : reqs[r].endpoint = "combine" /\ Swept(reqs[r]) # reqs[r].files
    /\ reqs' = [r \in Slots |->
            IF reqs[r].endpoint = "combine" THEN [reqs[r] EXCEPT !.files = Swept(reqs[r])]
            ELSE reqs[r]]
    /\ UNCHANGED <<call, TEXT_CONFIG>>

---------------------------------------------------------------------------
(* POST /process-video (src/unnamed/part_001, lines 450-547)               *)

\* Lines 457-478: the files are stored and the body is destructured; a
\* request without both files is answered 400 (what was stored stays); the
\* handler then awaits the check of the font file.
ProcessStart(r, requests) ==
    /\ reqs[r].pc = "idle"
    /\ \E q \in requests :
        /\ q.endpoint = "process-video"
        /\ reqs' = [reqs EXCEPT ![r] =
                [Idle EXCEPT !.endpoint = "process-video",
                             !.body = q.body,
                             !.hasAudio = q.hasAudio,
                             !.files = storedFiles(q.hasVideo, q.hasAudio),
                             !.pc = IF q.hasVideo /\ q.hasAudio THEN "checkFont"
                                    ELSE "done",
                             !.status = IF q.hasVideo /\ q.hasAudio THEN 0 ELSE 400]]
    /\ UNCHANGED <<call, TEXT_CONFIG>>

\* Lines 478-480: the font file is missing; the handler returns 400 and
\* leaves the files.
ProcessFontMissing(r) ==
    /\ reqs[r].pc = "checkFont"
    /\ reqs' = [reqs EXCEPT ![r].pc = "done", ![r].status = 400]
    /\ UNCHANGED <<call, TEXT_CONFIG>>

\* Lines 478-531: the font file exists; the filters are built and ffmpeg is
\* started, or the construction raises and the catch block cleans up and
\* answers 500.
ProcessFontChecked(r) ==
    /\ reqs[r].pc = "checkFont"
    /\ reqs' = [reqs EXCEPT ![r] =
            IF processThrows(reqs[r].body)
            THEN [@ EXCEPT !.pc = "done", !.raised = TRUE, !.status = 500,
                           !.files = cleanupFiles(@)]
            ELSE [@ EXCEPT !.pc = "encoding",
                           !.files.output = "fresh",
                           !.videoWidth = 1080,
                           !.built = TRUE,
                           !.graph = processFilterGraph(reqs[r].body)]]
    /\ UNCHANGED <<call, TEXT_CONFIG>>

\* Lines 523-545: ffmpeg ends (the download of the output starts) or fails
\* (the catch block cleans up and answers 500).
ProcessEncoded(r) ==
    /\ reqs[r].pc = "encoding"
    /\ reqs[r].endpoint = "process-video"
    /\ \E ok \in BOOLEAN :
        reqs' = [reqs EXCEPT ![r].pc = IF ok THEN "download" ELSE "done",
                             ![r].status = IF ok THEN 200 ELSE 500,
                             ![r].files = IF ok THEN @ ELSE cleanupFiles(@)]
    /\ UNCHANGED <<call, TEXT_CONFIG>>

\* Lines 534-540: the download ends; its callback cleans up.
ProcessDownloaded(r) ==
    /\ reqs[r].pc = "download"
    /\ reqs[r].endpoint = "process-video"
    /\ reqs' = [reqs EXCEPT ![r].pc = "done", ![r].files = cleanupFiles(@)]
    /\ UNCHANGED <<call, TEXT_CONFIG>>

\* The response is out, the handler's locals are gone and nothing of the
\* request is left on disk.
Release(r) ==
    /\ reqs[r].pc = "done"
    /\ OnDisk(reqs[r].files) = {}
    /\ reqs' = [reqs EXCEPT ![r] = Idle]
    /\ UNCHANGED <<call, TEXT_CONFIG>>

Handler(r, requests) ==
    \/ CombineUploadRejected(r)
    \/ CombineStart(r, requests)
    \/ CombineAudioProbed(r)
    \/ CombineVideoProbeFailed(r)
    \/ CombineVideoProbed(r)
    \/ CombineEncoded(r)
    \/ CombineDownloaded(r)
    \/ ProcessStart(r, requests)
    \/ ProcessFontMissing(r)
    \/ ProcessFontChecked(r)
    \/ ProcessEncoded(r)
    \/ ProcessDownloaded(r)
    \/ Release(r)

\* One request at a time, every input.
Next == Handler(1, Requests)

Spec == Init /\ [][Next]_vars

\* Two requests interleaved at their await points.
NextConcurrent == \E r \in Slots : Handler(r, ConcurrentRequests)

SpecConcurrent == Init /\ [][NextConcurrent]_vars

\* The requests of the specification of the files: every combination of
\* uploaded files, one form.
FileRequests ==
    {Request(e, Body(<<"a">>, Undefined, <<"@", "c">>, Undefined, NoColor, NoColor), v, a) :
        e \in Endpoints, v \in BOOLEAN, a \in BOOLEAN}

\* Two requests, the passing of time and the timer of the periodic cleanup.
NextFiles ==
    \/ \E r \in Slots : Handler(r, FileRequests)
    \/ \E r \in Slots : MinutesPass(r)
    \/ cleanupOldFiles

\* Every started handler step ends, time passes, and the timer set at line
\* 187 of src/server.js fires.
SpecFiles ==
    /\ Init
    /\ [][NextFiles]_vars
    /\ \A r \in Slots : WF_vars(Handler(r, FileRequests)) /\ WF_vars(MinutesPass(r))
    /\ WF_vars(cleanupOldFiles)

---------------------------------------------------------------------------
(* Direct calls of the text helpers                                        *)

\* The line budgets: 1..MaxBudget, and what a degenerate font size gives
\* (0 for a huge one, a negative number for a negative one, NaN for one
\* that is no number, Infinity for 0).
Budgets == {Num(b) : b \in 1..MaxBudget} \cup {Num(0), Num(-1), NaN, Infinity}

UnitTexts == StringsUpTo(UnitAlphabet, MaxUnitTextLen)

UnitYs == {<<"(h/2)", "-", "400", "+", "0">>, <<"(h/2)", "+", "400">>}

Enables == {NoEnable, LessThan(75), AtLeast(85)}

CallCleanText ==
    /\ call = NoCall
    /\ \E text \in StringsUpTo(CleanAlphabet, MaxTextLen) :
            /\ call' = [fn |-> "cleanText", args |-> <<text>>, ret |-> cleanText(text)]
            /\ UNCHANGED <<reqs, TEXT_CONFIG>>

CallSplitTextIntoLines ==
    /\ call = NoCall
    /\ \E text \in StringsUpTo(WrapAlphabet, MaxWrapLen), maxCharsPerLine \in Budgets :
            /\ call' = [fn |-> "splitTextIntoLines",
                        args |-> <<text, maxCharsPerLine>>,
                        ret |-> splitTextIntoLines(text, maxCharsPerLine)]
            /\ UNCHANGED <<reqs, TEXT_CONFIG>>

\* The wrapping loop of transcriptToDrawText on the words of a transcript.
CallWrapWords ==
    /\ call = NoCall
    /\ \E text \in StringsUpTo(WrapAlphabet, MaxWrapLen), maxCharsPerLine \in Budgets,
           isFirstTranscript \in BOOLEAN :
            LET words == transcriptWords(text)
            IN  /\ call' = [fn |-> "wrapWords",
                            args |-> <<words, maxCharsPerLine, isFirstTranscript>>,
                            ret |-> wrapWords(words,
                                              highlightIndicesOf(Len(words), isFirstTranscript),
                                              maxCharsPerLine)]
                /\ UNCHANGED <<reqs, TEXT_CONFIG>>

CallCreateGlowEffects ==
    /\ call = NoCall
    /\ \E text \in UnitTexts, y \in UnitYs, fontSize \in {Num(40), Num(80)},
           color \in {"white", "red"}, enableExpr \in Enables :
            LET unit == [text |-> text, x |-> <<"(w-text_w)/2">>, y |-> y,
                         fontSize |-> fontSize, color |-> color, enable |-> enableExpr]
            IN  /\ call' = [fn |-> "createGlowEffects",
                            args |-> <<unit>>,
                            ret |-> createGlowEffects(text, unit.x, y, fontSize, color,
                                                      fontFile, enableExpr)]
                /\ UNCHANGED <<reqs, TEXT_CONFIG>>

\* The four pushes of transcriptToDrawText for one unit.
CallDrawTextCommands ==
    /\ call = NoCall
    /\ \E text \in UnitTexts, y \in UnitYs, fontSize \in {Num(40), Num(80)},
           color \in {"white", "red"}, glowColor \in {"white", "gold"},
           enableExpr \in Enables \ {NoEnable} :
            LET unit == [text |-> text, x |-> <<"(w-tw)/2">>, y |-> y,
                         fontSize |-> fontSize, color |-> color, glowColor |-> glowColor,
                         enable |-> enableExpr]
            IN  /\ call' = [fn |-> "drawTextCommands",
                            args |-> <<unit>>,
                            ret |-> drawTextCommands(unit, fontFile)]
                /\ UNCHANGED <<reqs, TEXT_CONFIG>>

\* The lines of 1..MaxLineWords words of 1..MaxWordLen characters, the
\* first word highlighted.
PositionedLines ==
    {[i \in 1..k |-> [word |-> [j \in 1..lens[i] |-> "a"],
                      globalIndex |-> i - 1,
                      highlight |-> i = 1]] :
        k \in 1..MaxLineWords, lens \in [1..MaxLineWords -> 1..MaxWordLen]}

\* The positions transcriptToDrawText computes for the words of one line.
CallWordXPos ==
    /\ call = NoCall
    /\ \E line \in PositionedLines, fontSize \in {Num(1), Num(2), Num(80)} :
            /\ call' = [fn |-> "wordXPos",
                        args |-> <<line, fontSize>>,
                        ret |-> [xPos |-> [k \in 1..Len(line) |->
                                              wordXPos(line, k - 1, fontSize)],
                                 pixelOffset |-> [k \in 1..Len(line) |->
                                              pixelOffsetOf(line, k - 1, fontSize)],
                                 fullLineWidth |-> fullLineWidthOf(line, fontSize)]]
            /\ UNCHANGED <<reqs, TEXT_CONFIG>>

\* The call has returned.
Return ==
    /\ call # NoCall
    /\ call' = NoCall
    /\ UNCHANGED <<reqs, TEXT_CONFIG>>

NextUnit ==
    \/ CallCleanText
    \/ CallSplitTextIntoLines
    \/ CallWrapWords
    \/ CallCreateGlowEffects
    \/ CallDrawTextCommands
    \/ CallWordXPos
    \/ Return

SpecUnit == Init /\ [][NextUnit]_vars

---------------------------------------------------------------------------
(* Properties                                                              *)

\* The words of a line, as the wrappers return it.
LineWords(line) == [i \in 1..Len(line) |-> line[i].word]

\* The length of a line rendered as its words joined by single spaces.
RenderedLength(line) == Len(Join(LineWords(line)))

\* C1: cleanText returns a string without ' " : , [ ] characters, without
\* two consecutive spaces and without whitespace at either end; the empty
\* string is returned for the empty string.
C1_CleanTextOutput ==
    call.fn = "cleanText" =>
        LET out == call.ret
        IN  /\ \A i \in 1..Len(out) : out[i] \notin {"'", "\"", ":", ",", "[", "]"}
            /\ \A i \in 1..(Len(out) - 1) : ~(out[i] = " " /\ out[i + 1] = " ")
            /\ out # <<>> => out[1] \notin Whitespace /\ out[Len(out)] \notin Whitespace
            /\ call.args[1] = <<>> => out = <<>>

\* A cleaned text that had a quote, a colon and a run of whitespace in it.
C1_Witness ==
    /\ call.fn = "cleanText"
    /\ call.args[1] = <<"'", "a", ":", "\t">>
    /\ call.ret = <<"a">>

\* C2: for a positive maxCharsPerLine every line of either wrapper, rendered
\* as its words joined by single spaces, is at most maxCharsPerLine long,
\* unless it is a single word longer than maxCharsPerLine.
C2_LinesWithinBudget ==
    (/\ call.fn \in {"splitTextIntoLines", "wrapWords"}
     /\ call.args[2].k = "num"
     /\ call.args[2].v > 0) =>
        LET maxCharsPerLine == call.args[2].v
        IN  \A li \in 1..Len(call.ret) :
                LET line == call.ret[li]
                IN  \/ RenderedLength(line) <= maxCharsPerLine
                    \/ Len(line) = 1 /\ Len(line[1].word) > maxCharsPerLine

\* A wrapping with an over-long word on a line of its own and a line of
\* two words that fills the budget.
C2_Witness ==
    /\ call.fn = "splitTextIntoLines"
    /\ call.args[2].v = 3
    /\ Len(call.ret) = 2
    /\ LineWords(call.ret[1]) = <<<<"a", "a", "a", "a">>>>
    /\ LineWords(call.ret[2]) = <<<<"a">>, <<"a">>>>

---------------------------------------------------------------------------
(* What a built request drew, recomputed from its inputs                   *)

\* The locals of request slot r after the destructuring.
LocalsOf(r) ==
    IF reqs[r].endpoint = "combine" THEN combineLocals(TEXT_CONFIG, reqs[r].body)
    ELSE processLocals(reqs[r].body)

FontSizeOf(r) == parseInt(LocalsOf(r).fontSize)

TranscriptOf(r, isFirstTranscript) ==
    IF isFirstTranscript THEN reqs[r].body.transcript1 ELSE reqs[r].body.transcript2

\* The wrapped lines of a caption of request slot r.
LinesOf(r, isFirstTranscript) ==
    IF reqs[r].endpoint = "combine"
    THEN combineLines(TranscriptOf(r, isFirstTranscript),
                      combineMaxCharsPerLine(TEXT_CONFIG, reqs[r].videoWidth, FontSizeOf(r)))
    ELSE transcriptLines(TranscriptOf(r, isFirstTranscript), isFirstTranscript,
                         FontSizeOf(r))

RECURSIVE Flatten(_)
Flatten(seqs) == IF seqs = <<>> THEN <<>> ELSE Head(seqs) \o Flatten(Tail(seqs))

\* The number of words of the block, as the handler counts them.
WordCountOf(r, isFirstTranscript) == Len(Flatten(LinesOf(r, isFirstTranscript)))

\* The 0-based indices of the words the handler draws in the highlight colour.
HighlightedIndicesOf(r, isFirstTranscript) ==
    LET lines == LinesOf(r, isFirstTranscript)
        all == Flatten(lines)
    IN  IF reqs[r].endpoint = "combine"
        THEN UNION {{lines[li][i].index : i \in 1..Len(lines[li])} :
                       li \in {l \in 1..Len(lines) :
                                  isHighlightedLine(l - 1, Len(lines), isFirstTranscript)}}
        ELSE {all[i].globalIndex : i \in {j \in 1..Len(all) : all[j].highlight}}

\* The units of a caption block of request slot r, in drawing order.
UnitsOf(r, isFirstTranscript) ==
    IF reqs[r].endpoint = "combine"
    THEN createHighlightedUnits(TEXT_CONFIG, LinesOf(r, isFirstTranscript),
                                isFirstTranscript, FontSizeOf(r),
                                IF isFirstTranscript
                                THEN TEXT_CONFIG.transcriptTiming.first
                                ELSE TEXT_CONFIG.transcriptTiming.second)
    ELSE transcriptUnits(TranscriptOf(r, isFirstTranscript),
                         IF isFirstTranscript THEN LessThan(75) ELSE AtLeast(85),
                         isFirstTranscript, FontSizeOf(r), LocalsOf(r).fontColor,
                         LocalsOf(r).highlightColor)

\* The commands of the graph drawn under a given kind of enable expression.
CommandsWith(r, op) == SelectSeq(reqs[r].graph, LAMBDA c : c.enable.op = op)

\* A caption that is absent, empty or whitespace only.
Blank(text) == text = Undefined \/ Trim(text) = <<>>

---------------------------------------------------------------------------
(* Properties of the requests                                              *)

\* C3: the highlighted word indices of a block of n words are {n-2, n-1}
\* (n >= 2) or none (n < 2) for the first transcript, and {0} (n >= 1) or
\* none for the second (stated for the captions that keep a character
\* when sanitized).
C3_HighlightSetByCount ==
    \A r \in Slots : reqs[r].built =>
        \A isFirstTranscript \in BOOLEAN :
            LET n == WordCountOf(r, isFirstTranscript)
                transcript == TranscriptOf(r, isFirstTranscript)
            IN  (Truthy(transcript) /\ cleanText(transcript) # <<>>) =>
                    HighlightedIndicesOf(r, isFirstTranscript) =
                        IF isFirstTranscript
                        THEN (IF n >= 2 THEN {n - 2, n - 1} ELSE {})
                        ELSE (IF n >= 1 THEN {0} ELSE {})

\* C5: a caption that is absent, empty or whitespace only adds no command
\* to the graph; with both captions absent the graph is the 4 commands of
\* the channel name.
C5_BlankCaptionDrawsNothing ==
    \A r \in Slots : reqs[r].built =>
        /\ Blank(reqs[r].body.transcript1) => CommandsWith(r, "lt") = <<>>
        /\ Blank(reqs[r].body.transcript2) => CommandsWith(r, "gte") = <<>>
        /\ (reqs[r].body.transcript1 = Undefined /\ reqs[r].body.transcript2 = Undefined)
               => Len(reqs[r].graph) = 4

---------------------------------------------------------------------------
(* Properties of the glow expansion                                        *)

\* The text a command carries with its backslash escapes undone.
RECURSIVE Unescape(_)
Unescape(text) ==
    IF text = <<>> THEN <<>>
    ELSE IF Head(text) = "\\" /\ Len(text) >= 2
         THEN <<text[2]>> \o Unescape(SubSeq(text, 3, Len(text)))
    ELSE <<Head(text)>> \o Unescape(Tail(text))

\* The four commands share position, size and window with the unit, come
\* in layer order (the border narrows) and end with the unit's colour.
ExpansionKeepsUnit(unit, commands) ==
    /\ Len(commands) = 4
    /\ \A i \in 1..3 : commands[i].borderw > commands[i + 1].borderw
    /\ commands[4].fontcolor = <<unit.color>>
    /\ \A i \in 1..4 :
        /\ commands[i].x = unit.x
        /\ commands[i].y = unit.y
        /\ commands[i].fontsize = unit.fontSize
        /\ commands[i].enable = unit.enable

---------------------------------------------------------------------------
(* Properties of the assembled graph                                       *)

\* The length of the clip in tenths of a second ('-t 16').
ClipTenths == 160

\* Whether ffmpeg draws a command at playback time t (in tenths).
Visible(command, t10) ==
    CASE command.enable.op = "lt" -> t10 < command.enable.t10
      [] command.enable.op = "gte" -> t10 >= command.enable.t10
      [] OTHER -> TRUE

\* The number of commands of a block of request slot r.
BlockLength(r, isFirstTranscript) == 4 * Len(UnitsOf(r, isFirstTranscript))

\* C6: the commands of the first block carry lt(t,7.5), those of the second
\* gte(t,8.5), those of the channel name no enable expression; so at no
\* time both blocks are drawn, between 7.5 s and 8.5 s neither is, and the
\* channel name is drawn at every time.
C6_VisibilityWindows ==
    \A r \in Slots : reqs[r].built =>
        LET graph == reqs[r].graph
            n1 == BlockLength(r, TRUE)
            n2 == BlockLength(r, FALSE)
            first == 1..n1
            second == (n1 + 1)..(n1 + n2)
            channel == (n1 + n2 + 1)..Len(graph)
        IN  /\ Len(graph) = n1 + n2 + 4
            /\ \A i \in first : graph[i].enable = LessThan(75)
            /\ \A i \in second : graph[i].enable = AtLeast(85)
            /\ \A i \in channel : graph[i].enable = NoEnable
            /\ \A t \in 0..ClipTenths :
                /\ ~(\E i \in first, j \in second :
                        Visible(graph[i], t) /\ Visible(graph[j], t))
                /\ (75 <= t /\ t < 85) =>
                        \A i \in first \cup second : ~Visible(graph[i], t)
                /\ \A i \in channel : Visible(graph[i], t)

\* A graph with commands of both blocks.
C6_Witness ==
    /\ reqs[1].built
    /\ reqs[1].endpoint = "combine"
    /\ CommandsWith(1, "lt") # <<>>
    /\ CommandsWith(1, "gte") # <<>>

\* The words of the texts of the units drawn by a sequence of commands
\* (every 4th command), in order.
RECURSIVE DrawnWords(_)
DrawnWords(commands) ==
    IF Len(commands) < 4 THEN <<>>
    ELSE SelectSeq(Split(CollapseWhitespace(commands[4].text)), LAMBDA w : w # <<>>)
         \o DrawnWords(SubSeq(commands, 5, Len(commands)))

\* The words of a sanitized caption.
SanitizedWords(transcript) ==
    IF ~Truthy(transcript) THEN <<>>
    ELSE SelectSeq(Split(cleanText(transcript)), LAMBDA w : w # <<>>)

\* The order of a command's block in the graph.
BlockRank(command) ==
    CASE command.enable.op = "lt" -> 1
      [] command.enable.op = "gte" -> 2
      [] OTHER -> 3

\* The graph the handler of request slot r builds for another body.
GraphFor(r, body) ==
    IF reqs[r].endpoint = "combine"
    THEN combineFilterGraph(TEXT_CONFIG, body, reqs[r].videoWidth)
    ELSE processFilterGraph(body)

\* C7: the graph is the commands of the first block, then those of the
\* second, then those of the channel name; a block's commands follow the
\* order of the caption's words, the 4 layers of a unit are adjacent, and a
\* block that is absent takes only its own commands out of the graph.
C7_AssemblyOrder ==
    \A r \in Slots : reqs[r].built =>
        LET graph == reqs[r].graph
            body == reqs[r].body
        IN  /\ \A i \in 1..Len(graph), j \in 1..Len(graph) :
                    i < j => BlockRank(graph[i]) <= BlockRank(graph[j])
            /\ Len(CommandsWith(r, "none")) = 4
            /\ DrawnWords(CommandsWith(r, "lt")) = SanitizedWords(body.transcript1)
            /\ DrawnWords(CommandsWith(r, "gte")) = SanitizedWords(body.transcript2)
            /\ Len(graph) % 4 = 0
            /\ \A i \in 1..Len(graph) :
                    i % 4 # 0 =>
                        /\ graph[i].text = graph[i + 1].text
                        /\ graph[i].x = graph[i + 1].x
                        /\ graph[i].y = graph[i + 1].y
                        /\ graph[i].borderw > graph[i + 1].borderw
            /\ GraphFor(r, [body EXCEPT !.transcript1 = Undefined])
                   = SelectSeq(graph, LAMBDA c : c.enable.op # "lt")
            /\ GraphFor(r, [body EXCEPT !.transcript2 = Undefined])
                   = SelectSeq(graph, LAMBDA c : c.enable.op # "gte")

\* A graph of /combine with two lines in the first block and a second block.
C7_Witness ==
    /\ reqs[1].built
    /\ reqs[1].endpoint = "combine"
    /\ Len(CommandsWith(1, "lt")) = 8
    /\ Len(CommandsWith(1, "gte")) >= 4
    /\ Len(reqs[1].graph) = Len(CommandsWith(1, "lt")) + Len(CommandsWith(1, "gte")) + 4

---------------------------------------------------------------------------
(* Properties across requests                                              *)

\* C8: two requests with the same inputs (endpoint, form fields, frame
\* width) have the same graph, whatever was handled in between or is in
\* flight in the other slot, and TEXT_CONFIG stays as it was loaded.
C8_GraphDeterminedByInputs ==
    /\ TEXT_CONFIG = TextConfig
    /\ \A r1 \in Slots, r2 \in Slots :
        (/\ reqs[r1].built
         /\ reqs[r2].built
         /\ reqs[r1].endpoint = reqs[r2].endpoint
         /\ reqs[r1].body = reqs[r2].body
         /\ reqs[r1].videoWidth = reqs[r2].videoWidth)
            => reqs[r1].graph = reqs[r2].graph
    /\ \A r \in Slots : reqs[r].built => reqs[r].graph = GraphFor(r, reqs[r].body)

\* Two requests with the same caption and colour built in both slots, one
\* already answered and the other still encoding.
C8_Witness ==
    /\ reqs[1].built
    /\ reqs[2].built
    /\ reqs[1].endpoint = "combine"
    /\ reqs[2].endpoint = "combine"
    /\ reqs[1].body = reqs[2].body
    /\ reqs[1].videoWidth = reqs[2].videoWidth
    /\ reqs[1].body.fontColor = "red"
    /\ Truthy(reqs[1].body.transcript1)
    /\ reqs[1].pc = "done"
    /\ reqs[2].pc = "encoding"
    /\ reqs[1].graph = reqs[2].graph

\* C9: a request whose captions or channel name are absent, empty or
\* whitespace only never ends in an exception raised by the construction.
C9_NeverRaises ==
    \A r \in Slots :
        (\/ Blank(reqs[r].body.transcript1)
         \/ Blank(reqs[r].body.transcript2)
         \/ Blank(reqs[r].body.channelName))
            => ~reqs[r].raised

\* The colour of the final layer of the k-th unit among some commands.
FinalColor(commands, k) == commands[4 * k].fontcolor

\* C10: the final layer of every unit that is not highlighted, and of the
\* channel name, has the request's fontColor (white when omitted), and the
\* final layer of every highlighted unit has the request's highlightColor
\* (#98FBCB when omitted).
C10_ColoursFromRequest ==
    \A r \in Slots : reqs[r].built =>
        LET body == reqs[r].body
            fontColor == IF body.fontColor = NoColor THEN "white" ELSE body.fontColor
            highlightColor == IF body.highlightColor = NoColor THEN "#98FBCB"
                              ELSE body.highlightColor
            channel == CommandsWith(r, "none")
        IN  /\ FinalColor(channel, 1) = <<fontColor>>
            /\ \A isFirstTranscript \in BOOLEAN :
                LET units == UnitsOf(r, isFirstTranscript)
                    commands == CommandsWith(r, IF isFirstTranscript THEN "lt" ELSE "gte")
                IN  /\ Len(commands) = 4 * Len(units)
                    /\ \A k \in 1..Len(units) :
                        FinalColor(commands, k) =
                            <<IF units[k].highlight THEN highlightColor ELSE fontColor>>

---------------------------------------------------------------------------
(* The example caption                                                     *)

\* The line budget the handler of request slot r wraps its captions with.
MaxCharsPerLineOf(r) ==
    IF reqs[r].endpoint = "combine"
    THEN combineMaxCharsPerLine(TEXT_CONFIG, reqs[r].videoWidth, FontSizeOf(r))
    ELSE processMaxCharsPerLine(FontSizeOf(r))

\* C11: for "the quick brown fox jumps" as first caption with font size 80
\* and a frame 1080 wide, the line budget is 18, the highlighted words are
\* those of indices 3 and 4, every unit of the last line ends in the
\* highlight colour and the block has 4 commands per unit.
C11_ExampleCaption ==
    \A r \in Slots :
        (/\ reqs[r].built
         /\ reqs[r].body.transcript1 = ExampleCaption
         /\ FontSizeOf(r) = Num(80)
         /\ reqs[r].videoWidth = 1080)
            => LET units == UnitsOf(r, TRUE)
                   commands == CommandsWith(r, "lt")
               IN  /\ MaxCharsPerLineOf(r) = Num(18)
                   /\ HighlightedIndicesOf(r, TRUE) = {3, 4}
                   /\ Len(commands) = 4 * Len(units)
                   /\ units # <<>>
                   /\ \A k \in 1..Len(units) :
                        units[k].y = units[Len(units)].y
                            => FinalColor(commands, k) = <<LocalsOf(r).highlightColor>>

---------------------------------------------------------------------------
(* The example channel name                                                *)

\* C12 as stated: the channel name "@Channel: Name" is drawn as
\* "Channel Name".
C12_ChannelNameWithoutAt ==
    \A r \in Slots :
        (reqs[r].built /\ reqs[r].body.channelName = ExampleChannelName)
            => \A i \in 1..Len(CommandsWith(r, "none")) :
                   CommandsWith(r, "none")[i].text
                       = <<"C", "h", "a", "n", "n", "e", "l", " ", "N", "a", "m", "e">>

\* C12 amended: the channel name "@Channel: Name" is sanitized to
\* "@Channel Name" (the colon becomes a space, the two spaces collapse and
\* the '@' stays), and that is the text of the channel name's commands.
C12_ChannelNameSanitized ==
    /\ cleanText(ExampleChannelName)
           = <<"@", "C", "h", "a", "n", "n", "e", "l", " ", "N", "a", "m", "e">>
    /\ \A r \in Slots :
        (reqs[r].built /\ reqs[r].body.channelName = ExampleChannelName)
            => /\ Len(CommandsWith(r, "none")) = 4
               /\ \A i \in 1..4 :
                   CommandsWith(r, "none")[i].text
                       = <<"@", "C", "h", "a", "n", "n", "e", "l", " ", "N", "a", "m", "e">>

\* A graph of /combine built for the example channel name.
C12_Witness ==
    /\ reqs[1].built
    /\ reqs[1].endpoint = "combine"
    /\ reqs[1].body.channelName = ExampleChannelName
    /\ Len(CommandsWith(1, "none")) = 4
    /\ CommandsWith(1, "none")[4].text = cleanText(ExampleChannelName)

---------------------------------------------------------------------------
(* Properties of the line wrappers                                         *)

\* C13: for a positive maxCharsPerLine the first word of every line after
\* the first would not have fitted at the end of the line before it: that
\* line's joined length plus a separator plus the word's length exceeds
\* maxCharsPerLine.
C13_GreedyWrapping ==
    (/\ call.fn \in {"splitTextIntoLines", "wrapWords"}
     /\ call.args[2].k = "num"
     /\ call.args[2].v > 0) =>
        LET maxCharsPerLine == call.args[2].v
        IN  \A li \in 2..Len(call.ret) :
                RenderedLength(call.ret[li - 1]) + 1 + Len(call.ret[li][1].word)
                    > maxCharsPerLine

---------------------------------------------------------------------------
(* Properties of the highlight                                             *)

\* A text without a character the sanitizer removes or replaces.
Plain(text) == \A i \in 1..Len(text) : text[i] \notin {"'", "\"", ":", ",", "[", "]"}

\* For every word drawn by a sequence of commands, in order, whether the
\* final layer of its unit has the given colour.
RECURSIVE DrawnInColor(_, _)
DrawnInColor(commands, color) ==
    IF Len(commands) < 4 THEN <<>>
    ELSE LET words == SelectSeq(Split(CollapseWhitespace(commands[4].text)),
                                LAMBDA w : w # <<>>)
         IN  [i \in 1..Len(words) |-> commands[4].fontcolor = <<color>>]
             \o DrawnInColor(SubSeq(commands, 5, Len(commands)), color)

\* C14: whatever the line budget, the words of a first caption drawn in
\* the highlight colour are exactly its last two (none for a single word),
\* those of a second caption exactly its first, and no other word is
\* (stated for requests that leave the colours at their defaults and
\* captions of at least one word without characters the sanitizer touches).
C14_HighlightIndependentOfWrapping ==
    \A r \in Slots :
        (/\ reqs[r].built
         /\ reqs[r].body.fontColor = NoColor
         /\ reqs[r].body.highlightColor = NoColor)
            => \A isFirstTranscript \in BOOLEAN :
                LET transcript == TranscriptOf(r, isFirstTranscript)
                    n == Len(SanitizedWords(transcript))
                    commands == CommandsWith(r, IF isFirstTranscript THEN "lt" ELSE "gte")
                IN  (Truthy(transcript) /\ Plain(transcript) /\ n >= 1) =>
                        DrawnInColor(commands, LocalsOf(r).highlightColor)
                            = [i \in 1..n |-> IF isFirstTranscript
                                              THEN n >= 2 /\ i >= n - 1
                                              ELSE i = 1]

\* The words the handler of request slot r counts, indexes and wraps.
WordsOf(r, isFirstTranscript) == LineWords(Flatten(LinesOf(r, isFirstTranscript)))

\* C15: the words the handler counts, indexes, wraps and highlights are
\* the words of the sanitized caption, and so are the highlighted indices
\* (stated for the captions that keep a character when sanitized).
C15_WordsOfSanitizedCaption ==
    \A r \in Slots : reqs[r].built =>
        \A isFirstTranscript \in BOOLEAN :
            LET transcript == TranscriptOf(r, isFirstTranscript)
                n == Len(SanitizedWords(transcript))
            IN  (Truthy(transcript) /\ cleanText(transcript) # <<>>) =>
                    /\ WordsOf(r, isFirstTranscript) = SanitizedWords(transcript)
                    /\ WordCountOf(r, isFirstTranscript) = n

---------------------------------------------------------------------------
(* Properties of the positions                                             *)

\* The y offset from the middle of the frame, in tenths of a pixel, that
\* the handler of request slot r gives line lineIndex (0-based) of a block.
YOffsetTenthsOf(r, isFirstTranscript, lineIndex) ==
    IF reqs[r].endpoint = "combine"
    THEN LET terms == lineYTerms(TEXT_CONFIG, lineIndex, isFirstTranscript, FontSizeOf(r))
         IN  terms[1] + terms[2]
    ELSE 10 * transcriptLineYOffset(lineIndex, Len(LinesOf(r, isFirstTranscript)),
                                    FontSizeOf(r))

\* The line height (fontSize * lineHeightMultiplier) and the anchor of a
\* block, in tenths of a pixel.
LineHeightTenthsOf(r) ==
    IF reqs[r].endpoint = "combine"
    THEN FontSizeOf(r).v * TEXT_CONFIG.lineHeightMultiplier
    ELSE FontSizeOf(r).v * 11

BaseOffsetTenthsOf(r, isFirstTranscript) ==
    IF reqs[r].endpoint = "combine"
    THEN 10 * (IF isFirstTranscript THEN TEXT_CONFIG.textVerticalOffset.first
               ELSE TEXT_CONFIG.textVerticalOffset.second)
    ELSE 10 * (-500)

\* C16: in a block of L lines, line i (0-based) is drawn at the offset
\* base + i * lineHeight - (L * lineHeight) / 2 from the middle of the
\* frame (both sides doubled, in tenths of a pixel).
C16_LinesCentredOnAnchor ==
    \A r \in Slots :
        (reqs[r].built /\ FontSizeOf(r).k = "num") =>
            \A isFirstTranscript \in BOOLEAN :
                LET L == Len(LinesOf(r, isFirstTranscript))
                IN  \A i \in 0..(L - 1) :
                        2 * YOffsetTenthsOf(r, isFirstTranscript, i)
                            = 2 * BaseOffsetTenthsOf(r, isFirstTranscript)
                              + 2 * i * LineHeightTenthsOf(r)
                              - L * LineHeightTenthsOf(r)

---------------------------------------------------------------------------
(* Properties of the units                                                 *)

\* The 0-based word indices of line li of a block of request slot r.
LineIndicesOf(r, isFirstTranscript, li) ==
    LET line == LinesOf(r, isFirstTranscript)[li]
    IN  {(IF reqs[r].endpoint = "combine" THEN line[i].index ELSE line[i].globalIndex) :
            i \in 1..Len(line)}

\* Whether line li of the block holds a word drawn in the highlight colour.
LineHasHighlight(r, isFirstTranscript, li) ==
    LineIndicesOf(r, isFirstTranscript, li) \cap HighlightedIndicesOf(r, isFirstTranscript)
        # {}

\* The backend expressions for (frame width - text width) / 2.
CentredX == {<<"(w-text_w)/2">>, <<"(w-tw)/2">>}

\* C17: a block has one unit for every line without a highlighted word and
\* one unit for every word of a line with one (4 commands each); the unit
\* of a line without a highlighted word is centred by the backend (stated
\* for the captions that keep a character when sanitized).
C17_UnitsPerLineOrWord ==
    \A r \in Slots : reqs[r].built =>
        \A isFirstTranscript \in BOOLEAN :
            LET transcript == TranscriptOf(r, isFirstTranscript)
                lines == LinesOf(r, isFirstTranscript)
                commands == CommandsWith(r, IF isFirstTranscript THEN "lt" ELSE "gte")
                whole == {li \in 1..Len(lines) : ~LineHasHighlight(r, isFirstTranscript, li)}
                words == {p \in (1..Len(lines)) \X (0..(WordCountOf(r, isFirstTranscript) - 1)) :
                             /\ p[1] \notin whole
                             /\ p[2] \in LineIndicesOf(r, isFirstTranscript, p[1])}
            IN  (Truthy(transcript) /\ cleanText(transcript) # <<>>) =>
                    /\ Len(commands) = 4 * (Cardinality(whole) + Cardinality(words))
                    /\ words = {} => \A i \in 1..Len(commands) : commands[i].x \in CentredX

\* The number of characters of the first k words of a line and of the
\* separators that follow them.
RECURSIVE CharsBefore(_, _)
CharsBefore(line, k) ==
    IF k = 0 THEN 0 ELSE CharsBefore(line, k - 1) + Len(line[k].word) + 1

\* The offsets and x expressions of a line drawn word by word follow the
\* formula: the k-th word (k words before it) is at lineStart +
\* round(charWidth * (characters of the words before + k)), lineStart
\* centring round(charWidth * joined length); the first word is at
\* lineStart and the offsets grow strictly.
OffsetsFollowFormula(line, fontSize, ret) ==
    LET fs == fontSize.v
        lineStart == <<"(w-", ToString(ret.fullLineWidth), ")/2">>
    IN  /\ ret.fullLineWidth = RoundDiv(55 * fs * (CharsBefore(line, Len(line)) - 1), 100)
        /\ \A k \in 1..Len(line) :
            /\ ret.pixelOffset[k] = RoundDiv(55 * fs * CharsBefore(line, k - 1), 100)
            /\ ret.xPos[k] = IF k = 1 THEN lineStart
                             ELSE lineStart \o <<"+", ToString(ret.pixelOffset[k])>>
        /\ ret.pixelOffset[1] = 0
        /\ \A k \in 2..Len(line) : ret.pixelOffset[k - 1] < ret.pixelOffset[k]

\* C18 as stated: the positions follow the formula and every word's offset
\* is smaller than the full line width.
C18_OffsetsBelowLineWidth ==
    call.fn = "wordXPos" =>
        /\ OffsetsFollowFormula(call.args[1], call.args[2], call.ret)
        /\ \A k \in 1..Len(call.args[1]) : call.ret.pixelOffset[k] < call.ret.fullLineWidth

\* C18 amended: for a positive font size the positions follow the formula
\* and every word's offset is at most the full line width, and smaller
\* than it when the font size is 2 or more.
C18_WordOffsets ==
    call.fn = "wordXPos" =>
        /\ OffsetsFollowFormula(call.args[1], call.args[2], call.ret)
        /\ \A k \in 1..Len(call.args[1]) :
            /\ call.ret.pixelOffset[k] <= call.ret.fullLineWidth
            /\ call.args[2].v >= 2 => call.ret.pixelOffset[k] < call.ret.fullLineWidth

\* A line of three words at font size 80: "aa a aaa" is 352 wide and its
\* words are at 0, 132 and 220.
C18_Witness ==
    /\ call.fn = "wordXPos"
    /\ call.args[2] = Num(80)
    /\ Len(call.args[1]) = 3
    /\ call.ret.fullLineWidth = 352
    /\ call.ret.pixelOffset = <<0, 132, 220>>
    /\ call.ret.xPos[3] = <<"(w-", "352", ")/2", "+", "220">>

---------------------------------------------------------------------------
(* Properties of the glow layers                                           *)

\* The opacity, in hundredths, that a colour of a command is drawn with:
\* the number after the '@', or 1 without one.
OpacityOf(color) ==
    IF Len(color) = 1 THEN 100
    ELSE CASE color[2] = "@0.05" -> 5
           [] color[2] = "@0.08" -> 8
           [] color[2] = "@0.1" -> 10
           [] color[2] = "@0.15" -> 15
           [] color[2] = "@0.2" -> 20
           [] color[2] = "@0.3" -> 30
           [] color[2] = "@0.4" -> 40
           [] OTHER -> -1

\* C19: the 4 commands of every unit of the graph (caption lines, caption
\* words and the channel name) have the opacity, border width and border
\* opacity of TEXT_CONFIG.glowLevels, (0.08, 20, 0.05), (0.15, 12, 0.1),
\* (0.3, 6, 0.2), (1, 2, 0.4), in that order.
C19_GlowTable ==
    /\ \A l \in 1..3 :
        /\ TEXT_CONFIG.glowLevels[l].opacity < TEXT_CONFIG.glowLevels[l + 1].opacity
        /\ TEXT_CONFIG.glowLevels[l].borderWidth > TEXT_CONFIG.glowLevels[l + 1].borderWidth
    /\ \A r \in Slots : reqs[r].built =>
        \A i \in 1..Len(reqs[r].graph) :
            LET command == reqs[r].graph[i]
                level == TEXT_CONFIG.glowLevels[((i - 1) % 4) + 1]
            IN  /\ OpacityOf(command.fontcolor) = level.opacity
                /\ command.borderw = level.borderWidth
                /\ OpacityOf(command.bordercolor) = level.borderOpacity

\* C20: the first three commands of a highlighted caption unit are drawn
\* in the unit's own colour and those of any other caption unit in white,
\* all three below full opacity; the 4th command alone has the unit's
\* colour at full opacity.
C20_GlowColour ==
    \A r \in Slots : reqs[r].built =>
        \A isFirstTranscript \in BOOLEAN :
            LET units == UnitsOf(r, isFirstTranscript)
                commands == CommandsWith(r, IF isFirstTranscript THEN "lt" ELSE "gte")
            IN  /\ Len(commands) = 4 * Len(units)
                /\ \A k \in 1..Len(units) :
                    /\ \A l \in 1..3 :
                        /\ commands[4 * (k - 1) + l].fontcolor[1]
                               = IF units[k].highlight THEN units[k].color ELSE "white"
                        /\ OpacityOf(commands[4 * (k - 1) + l].fontcolor) < 100
                    /\ commands[4 * k].fontcolor = <<units[k].color>>

---------------------------------------------------------------------------
(* Properties of the y expressions                                         *)

\* A y expression that is the anchor (h/2) followed by signed numbers.
WellFormedY(y) ==
    /\ Len(y) >= 3
    /\ Len(y) % 2 = 1
    /\ y[1] = "(h/2)"
    /\ \A i \in 2..Len(y) :
        IF i % 2 = 0 THEN y[i] \in {"+", "-"}
        ELSE y[i] \notin {"+", "-", "NaN", "(h/2)"}

\* C21: the y expression of every command of the graph (both captions,
\* every line, the channel name) is the anchor (h/2) followed by an offset
\* with an explicit sign.
C21_YWellFormed ==
    \A r \in Slots : reqs[r].built =>
        \A i \in 1..Len(reqs[r].graph) : WellFormedY(reqs[r].graph[i].y)

---------------------------------------------------------------------------
(* The wrappers as partitions                                              *)

\* C22: for every maxCharsPerLine (zero, negative, NaN and Infinity
\* included) the lines of either wrapper, concatenated, are the input
\* words in order, each once and unchanged and with its 0-based index,
\* and no line is without a word.
C22_WrapperPartitions ==
    call.fn \in {"splitTextIntoLines", "wrapWords"} =>
        LET words == IF call.fn = "splitTextIntoLines" THEN Split(call.args[1])
                     ELSE call.args[1]
            flat == Flatten(call.ret)
        IN  /\ LineWords(flat) = words
            /\ \A i \in 1..Len(flat) :
                   (IF call.fn = "splitTextIntoLines" THEN flat[i].index
                    ELSE flat[i].globalIndex) = i - 1
            /\ \A li \in 1..Len(call.ret) : Len(call.ret[li]) > 0

\* A wrapping under a budget that is not a number: every word, the
\* over-long one included, on a line of its own.
C22_Witness ==
    /\ call.fn = "splitTextIntoLines"
    /\ call.args[2] = NaN
    /\ call.args[1] = <<"a", "a", "a", " ", "a", " ", "a">>
    /\ LineWords(call.ret[1]) = << <<"a", "a", "a">> >>
    /\ Len(call.ret) = 3

---------------------------------------------------------------------------
(* The files of a request                                                  *)

StillOnDisk(r) == OnDisk(reqs[r].files) # {}

\* C23: every file a request has stored under uploads/ or output/ is
\* eventually deleted, however the request ends.
C23_FilesEventuallyDeleted ==
    \A r \in Slots : StillOnDisk(r) ~> ~StillOnDisk(r)

\* C24: while ffmpeg processes a request or its output is downloaded, none
\* of its uploaded files and not its output has been deleted.
C24_SweepSparesFilesInUse ==
    \A r \in Slots : reqs[r].pc \in {"encoding", "download"} =>
        \A k \in FileKinds : reqs[r].files[k] # "deleted"

====
